---- MODULE Spec2Model ----
(***************************************************************************)
(* create_mcp_server (mcp-server-creation-tool/mcp-server-creation.py):    *)
(* the scaffolding tool as a state machine over the host's filesystem, the *)
(* process working directory and the frames of the running invocations.    *)
(*                                                                         *)
(* A path is a sequence of components; an absolute path starts with "/",   *)
(* a path starting with "~" is relative to the user's home directory.      *)
(* Every external operation (a filesystem call, a child process) is one    *)
(* step of the invocation that performs it, followed by the local code up  *)
(* to the next external operation.                                         *)
(***************************************************************************)
EXTENDS Naturals, Sequences, FiniteSets, TLC

\* Number of calls the host dispatches in one behaviour.
MaxCalls == 2

\* Threads of the host process that may execute the tool function.
Threads == {"main", "worker"}
MainThread == "main"

Root == <<"/">>
Home == <<"/", "home">>

\* project_location arguments: an existing directory, a missing one below it,
\* and a missing absolute one.
Locations == { <<"~">>, <<"~", "ws">>, <<"/", "srv">> }

\* project_name arguments: a plain name, ".", and an absolute path.
Names == { <<"alpha">>, <<".">>, <<"/", "home">> }

Descriptions == { "Custom MCP Server" }

\* sys.platform values.
Platforms == { <<"linux">>, <<"darwin">>, <<"win32">> }

\* The uv binary on the host: runs, exits non-zero, or is not on PATH.
UvStates == { "working", "broken", "absent" }

StepNames ==
  { "makedirs", "probe", "curl", "sh", "exists", "mkdir", "chdir",
    "init", "venv", "add", "main", "readme" }

NoPath == <<>>

---------------------------------------------------------------------------
(* Pure helpers. *)

\* str.startswith
StartsWith(s, prefix) ==
  /\ Len(s) >= Len(prefix)
  /\ SubSeq(s, 1, Len(prefix)) = prefix

\* os.path.expanduser: a leading "~" is replaced by the home directory.
ExpandUser(p) ==
  IF p # <<>> /\ p[1] = "~" THEN Home \o Tail(p) ELSE p

\* pathlib drops "." components when it builds a path.
RECURSIVE DropDots(_)
DropDots(p) ==
  IF p = <<>> THEN <<>>
  ELSE IF Head(p) = "." THEN DropDots(Tail(p))
  ELSE <<Head(p)>> \o DropDots(Tail(p))

\* Path(project_location) / project_name: an absolute right operand replaces
\* the left one.
PathJoin(location, name) ==
  IF name # <<>> /\ name[1] = "/" THEN DropDots(name)
  ELSE DropDots(location \o name)

\* Ancestors with the path itself left out (the range stops one short).
AncestorsProper(p) == { SubSeq(p, 1, k) : k \in 1..(Len(p) - 1) }

\* A path and all its ancestors, the root included.
Ancestors(p) == { SubSeq(p, 1, k) : k \in 1..Len(p) }

\* os.path.exists / Path.exists
Exists(p, ds, fs) == p \in ds \/ \E f \in fs : f.path = p

\* The test of line 46 with startswith("") in place of startswith("linux").
SupportedPlatformLoose(p) == p = <<"darwin">> \/ StartsWith(p, <<>>)

\* The test of line 46.
SupportedPlatform(p) == p = <<"darwin">> \/ StartsWith(p, <<"linux">>)

\* The | operator of line 51 on the run-time types of its operands: defined for
\* two ints, two bools or two sets; anything else raises TypeError.
PyOr(lhs, rhs) ==
  IF lhs = rhs /\ lhs \in {"int", "bool", "set"} THEN lhs ELSE "TypeError"

\* What subprocess.run(["uv", "--version"], check=True) does for each state of
\* uv. Nothing the program does installs or removes uv (the installer of line
\* 51 never receives the script), so the state is fixed in a behaviour.
ProbeOutcome(u) ==
  CASE u = "working" -> "ok"
    [] u = "broken" -> "CalledProcessError"
    [] u = "absent" -> "FileNotFoundError"

---------------------------------------------------------------------------
(* Messages: the log entries and the returned strings, as token sequences. *)

LogCreatedLocation == "Created directory"
LogUvPresent == "uv package manager is installed"
LogInstalling == "Installing uv package manager..."
LogUvInstalled == "uv package manager installed successfully"
LogCreatedProject == "Created project directory"
LogInit == "Initialized uv project"
LogVenv == "Created virtual environment"
LogAdd == "Installed required dependencies"
LogMain == "Created main.py with basic MCP server implementation"
LogReadme == "Created README.md with usage instructions"

FailMark == "X"

MsgLocationFailed == <<FailMark, "Failed to create directory">>
MsgUnsupported ==
  <<FailMark, "Automatic installation of uv is only supported on MacOS and Linux. Please install uv manually.">>
MsgInstallFailed ==
  <<FailMark, "Failed to install uv package manager. Please install it manually.">>
MsgExists ==
  <<FailMark, "Directory already exists. Please choose a different name or location.">>
MsgInitFailed == <<FailMark, "Failed to initialize uv project">>
MsgVenvFailed == <<FailMark, "Failed to create virtual environment">>
MsgAddFailed == <<FailMark, "Failed to install dependencies">>

SuccessHead == "MCP Server created successfully!"

\* The report of lines 172-185: the fixed text, then one line per log entry.
SuccessMessage(name, dir, log) ==
  <<SuccessHead, "Project:">> \o name \o <<"Location:">> \o dir
    \o <<"Setup log:">> \o log

---------------------------------------------------------------------------
VARIABLES
  dirs,        \* directories on disk
  files,       \* files on disk: records [path, text]
  cwd,         \* the process working directory
  platform,    \* sys.platform
  uv,          \* state of the uv binary on the host
  calls,       \* calls dispatched so far
  last,        \* the most recently finished call
  overlapped,  \* a call was dispatched while another was in flight
  pc,          \* per thread: position in create_mcp_server
  request,     \* per thread: the arguments of the call
  local,       \* per thread: project_location, original_dir, project_dir, failure
  result_log,  \* per thread: result_log
  ret,         \* per thread: what the call gave its caller
  obs          \* per thread: what the call observed and did

vars ==
  <<dirs, files, cwd, platform, uv, calls, last, overlapped,
    pc, request, local, result_log, ret, obs>>

NoRequest ==
  [project_name |-> NoPath, project_location |-> NoPath, server_description |-> ""]

NoLocal ==
  [project_location |-> NoPath, original_dir |-> NoPath,
   project_dir |-> NoPath, failure |-> <<>>]

NoRet == [kind |-> "none", text |-> <<>>]

NoCall ==
  [request |-> NoRequest, ret |-> NoRet,
   ran |-> [s \in StepNames |-> "none"], existed |-> FALSE]

NoObs ==
  [cwdAtCall |-> NoPath, cwdAtReturn |-> NoPath, existed |-> FALSE,
   ran |-> [s \in StepNames |-> "none"],
   at |-> [s \in StepNames |-> NoPath],
   created |-> {}, written |-> {}, prev |-> NoCall]

Terminal(t) == pc[t] \in {"returned", "raised"}
InFlight(t) == pc[t] \notin {"idle", "returned", "raised"}

Init ==
  /\ dirs = {Root, Home}
  /\ files = {}
  /\ cwd = Home
  /\ platform \in Platforms
  /\ uv \in UvStates
  /\ calls = 0
  /\ last = NoCall
  /\ overlapped = FALSE
  /\ pc = [t \in Threads |-> "idle"]
  /\ request = [t \in Threads |-> NoRequest]
  /\ local = [t \in Threads |-> NoLocal]
  /\ result_log = [t \in Threads |-> <<>>]
  /\ ret = [t \in Threads |-> NoRet]
  /\ obs = [t \in Threads |-> NoObs]

---------------------------------------------------------------------------
(* Leaving the function. *)

\* The call ends: `kind` is "return" or "raise", `o` the thread's record of the
\* call, `wd` the working directory it leaves.
Leave(t, kind, text, o, wd) ==
  /\ pc' = [pc EXCEPT ![t] = IF kind = "raise" THEN "raised" ELSE "returned"]
  /\ ret' = [ret EXCEPT ![t] = [kind |-> kind, text |-> text]]
  /\ obs' = [obs EXCEPT ![t] = [o EXCEPT !.cwdAtReturn = wd]]
  /\ last' = [request |-> request[t], ret |-> [kind |-> kind, text |-> text],
              ran |-> o.ran, existed |-> o.existed]

\* A failure return that appends the log accumulated so far to the message.
FailureReturnWithLog(t, msg) == msg \o result_log[t]

\* A failure return: the message alone (lines 33, 54, 56, 61, 75, 83, 91).
FailureReturn(t, msg) == msg

\* The record of the call after `step` ended with `outcome` in the current
\* working directory.
Ran(o, step, outcome) == [o EXCEPT !.ran[step] = outcome, !.at[step] = cwd]

\* The step goes on to position `next`.
Goto(t, next, o) ==
  /\ pc' = [pc EXCEPT ![t] = next]
  /\ obs' = [obs EXCEPT ![t] = o]
  /\ UNCHANGED <<ret, last>>

Append1(t, entry) == [result_log EXCEPT ![t] = Append(@, entry)]

---------------------------------------------------------------------------
(* The steps of create_mcp_server. *)

\* The host calls the tool on thread t (line 10; lines 22-25).
Dispatch(t) ==
  /\ calls < MaxCalls
  /\ \E n \in Names, l \in Locations, d \in Descriptions :
       /\ request' = [request EXCEPT ![t] =
            [project_name |-> n, project_location |-> l, server_description |-> d]]
       /\ local' = [local EXCEPT ![t] =
            [NoLocal EXCEPT !.project_location = ExpandUser(l)]]
       /\ obs' = [obs EXCEPT ![t] =
            [NoObs EXCEPT !.cwdAtCall = cwd,
                          !.existed = Exists(PathJoin(ExpandUser(l), n), dirs, files),
                          !.prev = last]]
  /\ calls' = calls + 1
  /\ overlapped' = (overlapped \/ \E u \in Threads \ {t} : InFlight(u))
  /\ pc' = [pc EXCEPT ![t] = "check_location"]
  /\ result_log' = [result_log EXCEPT ![t] = <<>>]
  /\ ret' = [ret EXCEPT ![t] = NoRet]
  /\ UNCHANGED <<dirs, files, cwd, platform, uv, last>>

\* A single-threaded host: one call at a time, each on the main thread.
SerialCall(t) ==
  /\ t = MainThread
  /\ \A u \in Threads : ~InFlight(u)
  /\ Dispatch(t)

\* A host with a thread per request: each thread runs one call, whatever the
\* other thread is doing; the first request goes to the main thread.
Call(t) ==
  /\ pc[t] = "idle"
  /\ t = MainThread \/ pc[MainThread] # "idle"
  /\ Dispatch(t)

\* Line 28: os.path.exists(project_location).
CheckLocation(t) ==
  /\ pc[t] = "check_location"
  /\ pc' = [pc EXCEPT ![t] =
       IF Exists(local[t].project_location, dirs, files)
       THEN "getcwd" ELSE "makedirs"]
  /\ UNCHANGED <<dirs, files, cwd, platform, uv, calls, last, overlapped,
                 request, local, result_log, ret, obs>>

\* Lines 29-33: os.makedirs(project_location); any exception is returned as a
\* failure. makedirs raises FileExistsError when the leaf exists by now.
MakeLocation(t) ==
  /\ pc[t] = "makedirs"
  /\ LET loc == local[t].project_location IN
     \E outcome \in IF Exists(loc, dirs, files) THEN {"FileExistsError"}
                    ELSE {"ok", "OSError"} :
       IF outcome = "ok"
       THEN /\ dirs' = dirs \cup Ancestors(loc)
            /\ result_log' = Append1(t, LogCreatedLocation)
            /\ Goto(t, "getcwd",
                 [Ran(obs[t], "makedirs", "ok") EXCEPT
                    !.created = @ \cup (Ancestors(loc) \ dirs)])
            /\ UNCHANGED <<files, cwd, platform, uv, calls, overlapped,
                           request, local>>
       ELSE /\ Leave(t, "return", FailureReturn(t, MsgLocationFailed),
                     Ran(obs[t], "makedirs", outcome), cwd)
            /\ UNCHANGED <<dirs, files, cwd, platform, uv, calls, overlapped,
                           request, local, result_log>>

\* Line 36: original_dir = os.getcwd().
GetCwd(t) ==
  /\ pc[t] = "getcwd"
  /\ local' = [local EXCEPT ![t].original_dir = cwd]
  /\ pc' = [pc EXCEPT ![t] = "probe"]
  /\ UNCHANGED <<dirs, files, cwd, platform, uv, calls, last, overlapped,
                 request, result_log, ret, obs>>

\* Lines 38-46 and 53-54: the probe; when it fails, the platform gate of the
\* installer.
ProbeUv(t) ==
  /\ pc[t] = "probe"
  /\ LET outcome == ProbeOutcome(uv)
         o == Ran(obs[t], "probe", outcome) IN
     IF outcome = "ok"
     THEN /\ result_log' = Append1(t, LogUvPresent)
          /\ Goto(t, "check_project", o)
     ELSE /\ result_log' = Append1(t, LogInstalling)
          /\ IF SupportedPlatform(platform)
             THEN Goto(t, "curl", o)
             ELSE Leave(t, "return", FailureReturn(t, MsgUnsupported), o, cwd)
  /\ UNCHANGED <<dirs, files, cwd, platform, uv, calls, overlapped,
                 request, local>>

\* Lines 47-50 and 55-56: curl downloads the install script. Only
\* CalledProcessError is caught; a missing curl raises FileNotFoundError.
DownloadInstaller(t) ==
  /\ pc[t] = "curl"
  /\ \E outcome \in {"ok", "CalledProcessError", "FileNotFoundError"} :
       LET o == Ran(obs[t], "curl", outcome) IN
       CASE outcome = "ok" -> Goto(t, "sh", o)
         [] outcome = "CalledProcessError" ->
              Leave(t, "return", FailureReturn(t, MsgInstallFailed), o, cwd)
         [] outcome = "FileNotFoundError" ->
              Leave(t, "raise", <<outcome>>, o, cwd)
  /\ UNCHANGED <<dirs, files, cwd, platform, uv, calls, overlapped,
                 request, local, result_log>>

\* The right operand of line 51 and lines 52, 55-56: sh runs on the inherited
\* standard input (the script is not passed to it, so uv stays as it was); then
\* bytes | CompletedProcess is evaluated.
RunInstaller(t) ==
  /\ pc[t] = "sh"
  /\ \E outcome \in {"ok", "CalledProcessError"} :
       LET o == Ran(obs[t], "sh", outcome) IN
       IF outcome = "CalledProcessError"
       THEN /\ Leave(t, "return", FailureReturn(t, MsgInstallFailed), o, cwd)
            /\ UNCHANGED result_log
       ELSE IF PyOr("bytes", "CompletedProcess") = "TypeError"
       THEN /\ Leave(t, "raise", <<"TypeError">>, o, cwd)
            /\ UNCHANGED result_log
       ELSE /\ result_log' = Append1(t, LogUvInstalled)
            /\ Goto(t, "check_project", o)
  /\ UNCHANGED <<dirs, files, cwd, platform, uv, calls, overlapped,
                 request, local>>

\* Lines 59-61 without the existence check: straight on to mkdir.
CheckProjectSkipped(t) ==
  /\ pc[t] = "check_project"
  /\ LET dir == PathJoin(local[t].project_location, request[t].project_name) IN
     /\ local' = [local EXCEPT ![t].project_dir = dir]
     /\ Goto(t, "mkdir", Ran(obs[t], "exists", "absent"))
  /\ UNCHANGED <<dirs, files, cwd, platform, uv, calls, overlapped,
                 request, result_log>>

\* Lines 59-61: the existence check on project_location / project_name.
CheckProject(t) ==
  /\ pc[t] = "check_project"
  /\ LET dir == PathJoin(local[t].project_location, request[t].project_name) IN
     /\ local' = [local EXCEPT ![t].project_dir = dir]
     /\ IF Exists(dir, dirs, files)
        THEN Leave(t, "return", FailureReturn(t, MsgExists),
                   Ran(obs[t], "exists", "present"), cwd)
        ELSE Goto(t, "mkdir", Ran(obs[t], "exists", "absent"))
  /\ UNCHANGED <<dirs, files, cwd, platform, uv, calls, overlapped,
                 request, result_log>>

\* Lines 63-64: project_dir.mkdir(parents=True), outside any try.
MakeProject(t) ==
  /\ pc[t] = "mkdir"
  /\ LET dir == local[t].project_dir IN
     \E outcome \in IF Exists(dir, dirs, files) THEN {"FileExistsError"}
                    ELSE {"ok", "OSError"} :
       IF outcome = "ok"
       THEN /\ dirs' = dirs \cup Ancestors(dir)
            /\ result_log' = Append1(t, LogCreatedProject)
            /\ Goto(t, "chdir",
                 [Ran(obs[t], "mkdir", "ok") EXCEPT
                    !.created = @ \cup (Ancestors(dir) \ dirs)])
       ELSE /\ Leave(t, "raise", <<outcome>>, Ran(obs[t], "mkdir", outcome), cwd)
            /\ UNCHANGED <<dirs, result_log>>
  /\ UNCHANGED <<files, cwd, platform, uv, calls, overlapped, request, local>>

\* Line 67 left out: the call goes on in the directory it was in.
EnterProjectSkipped(t) ==
  /\ pc[t] = "chdir"
  /\ Goto(t, "init", Ran(obs[t], "chdir", "ok"))
  /\ UNCHANGED <<dirs, files, cwd, platform, uv, calls, overlapped,
                 request, local, result_log>>

\* Line 67: os.chdir(project_dir).
EnterProject(t) ==
  /\ pc[t] = "chdir"
  /\ cwd' = local[t].project_dir
  /\ Goto(t, "init", Ran(obs[t], "chdir", "ok"))
  /\ UNCHANGED <<dirs, files, platform, uv, calls, overlapped,
                 request, local, result_log>>

\* One uv sub-command in the working directory (lines 70-75, 78-83, 86-91):
\* on a non-zero exit the failure message is set and the handler follows.
UvRun(t, step, entry, msg, next) ==
  /\ \E outcome \in {"ok", "CalledProcessError"} :
       IF outcome = "ok"
       THEN /\ result_log' = Append1(t, entry)
            /\ local' = local
            /\ Goto(t, next, Ran(obs[t], step, outcome))
       ELSE /\ result_log' = result_log
            /\ local' = [local EXCEPT ![t].failure = msg]
            /\ Goto(t, "abort", Ran(obs[t], step, outcome))
  /\ UNCHANGED <<dirs, files, cwd, platform, uv, calls, overlapped, request>>

UvInit(t) ==
  /\ pc[t] = "init"
  /\ UvRun(t, "init", LogInit, MsgInitFailed, "venv")

UvVenv(t) ==
  /\ pc[t] = "venv"
  /\ UvRun(t, "venv", LogVenv, MsgVenvFailed, "add")

UvAdd(t) ==
  /\ pc[t] = "add"
  /\ UvRun(t, "add", LogAdd, MsgAddFailed, "main")

\* No change of directory on exit: the call stays where it is.
RestoreDirStay(t) == cwd

\* The directory the exits of lines 74, 82, 90 and 169 change to.
RestoreDir(t) == local[t].original_dir

\* The failure exit with a rollback: the directories this call created are
\* removed before it returns.
AbortRollback(t) ==
  /\ pc[t] = "abort"
  /\ cwd' = local[t].original_dir
  /\ dirs' = dirs \ obs[t].created
  /\ Leave(t, "return", FailureReturn(t, local[t].failure), obs[t], cwd')
  /\ UNCHANGED <<files, platform, uv, calls, overlapped,
                 request, local, result_log>>

\* Lines 74-75, 82-83, 90-91: back to the original directory, then the
\* failure message.
Abort(t) ==
  /\ pc[t] = "abort"
  /\ cwd' = RestoreDir(t)
  /\ Leave(t, "return", FailureReturn(t, local[t].failure), obs[t], cwd')
  /\ UNCHANGED <<dirs, files, platform, uv, calls, overlapped,
                 request, local, result_log>>

\* open(name, "w") in the working directory: the file is created or replaced.
WriteFile(name, text) ==
  LET p == cwd \o <<name>> IN
  { f \in files : f.path # p } \cup { [path |-> p, text |-> text] }

\* Lines 94-109: main.py, outside any try.
WriteMain(t) ==
  /\ pc[t] = "main"
  /\ \E outcome \in {"ok", "OSError"} :
       IF outcome = "ok"
       THEN /\ files' = WriteFile("main.py", <<request[t].server_description>>)
            /\ result_log' = Append1(t, LogMain)
            /\ Goto(t, "readme",
                 [Ran(obs[t], "main", "ok") EXCEPT
                    !.written = @ \cup {cwd \o <<"main.py">>}])
       ELSE /\ Leave(t, "raise", <<outcome>>, Ran(obs[t], "main", outcome), cwd)
            /\ UNCHANGED <<files, result_log>>
  /\ UNCHANGED <<dirs, cwd, platform, uv, calls, overlapped, request, local>>

\* Lines 112-166: README.md, which embeds os.path.abspath('.'); outside any try.
WriteReadme(t) ==
  /\ pc[t] = "readme"
  /\ \E outcome \in {"ok", "OSError"} :
       IF outcome = "ok"
       THEN /\ files' = WriteFile("README.md",
                 request[t].project_name
                   \o <<request[t].server_description>> \o cwd)
            /\ result_log' = Append1(t, LogReadme)
            /\ Goto(t, "finish",
                 [Ran(obs[t], "readme", "ok") EXCEPT
                    !.written = @ \cup {cwd \o <<"README.md">>}])
       ELSE /\ Leave(t, "raise", <<outcome>>, Ran(obs[t], "readme", outcome), cwd)
            /\ UNCHANGED <<files, result_log>>
  /\ UNCHANGED <<dirs, cwd, platform, uv, calls, overlapped, request, local>>

\* Lines 169-187: back to the original directory, then the success report.
Finish(t) ==
  /\ pc[t] = "finish"
  /\ cwd' = RestoreDir(t)
  /\ Leave(t, "return",
           SuccessMessage(request[t].project_name, local[t].project_dir,
                          result_log[t]),
           obs[t], cwd')
  /\ UNCHANGED <<dirs, files, platform, uv, calls, overlapped,
                 request, local, result_log>>

Step(t) ==
  \/ CheckLocation(t)
  \/ MakeLocation(t)
  \/ GetCwd(t)
  \/ ProbeUv(t)
  \/ DownloadInstaller(t)
  \/ RunInstaller(t)
  \/ CheckProject(t)
  \/ MakeProject(t)
  \/ EnterProject(t)
  \/ UvInit(t)
  \/ UvVenv(t)
  \/ UvAdd(t)
  \/ Abort(t)
  \/ WriteMain(t)
  \/ WriteReadme(t)
  \/ Finish(t)

\* One call at a time.
Next == \E t \in Threads : SerialCall(t) \/ Step(t)

Spec == Init /\ [][Next]_vars

\* Calls dispatched to both threads, interleaved at every external operation.
NextThreads == \E t \in Threads : Call(t) \/ Step(t)

SpecThreads == Init /\ [][NextThreads]_vars

---------------------------------------------------------------------------
(* Vocabulary of the properties. *)

IsFailure(r) == r.kind = "return" /\ r.text # <<>> /\ r.text[1] = FailMark

IsSuccess(r) == r.kind = "return" /\ r.text # <<>> /\ r.text[1] = SuccessHead

Contains(text, entry) == \E k \in DOMAIN text : text[k] = entry

\* `log` appears in `text` as one block, in order.
CarriesLog(text, log) ==
  \E k \in 0..Len(text) :
    /\ k + Len(log) <= Len(text)
    /\ SubSeq(text, k + 1, k + Len(log)) = log

Failed == {"CalledProcessError", "FileNotFoundError"}

ToolSteps == {"probe", "curl", "sh", "init", "venv", "add"}

\* The steps that act on the process working directory.
CwdSteps == {"init", "venv", "add", "main", "readme"}

\* uv --version, uv init, uv venv and uv add were run and each succeeded.
UvAllOk(ran) ==
  \A s \in {"probe", "init", "venv", "add"} : ran[s] = "ok"

WritesOk(ran) == ran["main"] = "ok" /\ ran["readme"] = "ok"

\* uv init, uv venv or uv add exited non-zero.
ScaffoldFailed(ran) == \E s \in {"init", "venv", "add"} : ran[s] \in Failed

\* The call of thread t repeats the arguments of the call that finished just
\* before it was made.
Repeats(t) ==
  /\ obs[t].prev.ret.kind # "none"
  /\ obs[t].prev.request = request[t]

ProbeFailedSupported(t) ==
  obs[t].ran["probe"] \in Failed /\ SupportedPlatform(platform)

---------------------------------------------------------------------------
(* The properties. *)

C2_AsStated ==
  \A t \in Threads :
    (Terminal(t) /\ obs[t].existed)
      => /\ IsFailure(ret[t])
         /\ obs[t].created = {}
         /\ obs[t].written = {}
         /\ obs[t].ran["curl"] = "none"
         /\ obs[t].ran["sh"] = "none"

\* C2 amended: when the target exists beforehand and the probe succeeds, the
\* call returns the 'already exists' failure; when the probe fails on a platform
\* other than macOS and Linux, it returns the 'install uv manually' failure. In
\* both cases it starts no installer, writes no file and never runs the
\* project-directory mkdir; the only directories it can create are
\* project_location and its parents, and only for an absolute project_name.
C2_ExistingTargetRejected ==
  \A t \in Threads :
    (/\ Terminal(t) /\ obs[t].existed
     /\ \/ obs[t].ran["probe"] = "ok"
        \/ obs[t].ran["probe"] \in Failed /\ ~SupportedPlatform(platform))
      => /\ ret[t].kind = "return"
         /\ ret[t].text =
              IF obs[t].ran["probe"] = "ok" THEN MsgExists ELSE MsgUnsupported
         /\ obs[t].written = {}
         /\ obs[t].ran["curl"] = "none"
         /\ obs[t].ran["sh"] = "none"
         /\ obs[t].ran["mkdir"] = "none"
         /\ obs[t].created \subseteq Ancestors(local[t].project_location)
         /\ obs[t].created # {} => request[t].project_name[1] = "/"

C2_Witness ==
  \E t \in Threads :
    /\ Terminal(t) /\ obs[t].existed
    /\ obs[t].ran["probe"] = "ok"
    /\ ret[t] = [kind |-> "return", text |-> MsgExists]
    /\ obs[t].created = {}

C4_AsStated ==
  \A t \in Threads :
    (Terminal(t) /\ \E s \in ToolSteps : obs[t].ran[s] \in Failed)
      => /\ IsFailure(ret[t])
         /\ obs[t].cwdAtReturn = obs[t].cwdAtCall

\* C5: when the probe fails and the platform is neither macOS nor Linux, the
\* call returns the 'install uv manually' failure, starts neither curl nor sh,
\* and never runs the project-directory mkdir (it creates at most
\* project_location and its parents).
C5_UnsupportedPlatform ==
  \A t \in Threads :
    (/\ Terminal(t)
     /\ obs[t].ran["probe"] \in Failed
     /\ platform \notin {<<"darwin">>, <<"linux">>})
      => /\ ret[t] = [kind |-> "return", text |-> MsgUnsupported]
         /\ obs[t].ran["curl"] = "none"
         /\ obs[t].ran["sh"] = "none"
         /\ obs[t].ran["mkdir"] = "none"
         /\ obs[t].created \subseteq Ancestors(local[t].project_location)

C5_Witness ==
  \E t \in Threads :
    /\ Terminal(t)
    /\ obs[t].ran["probe"] \in Failed
    /\ platform = <<"win32">>
    /\ ret[t].text = MsgUnsupported

\* C6 as stated: a failure return carries the log accumulated so far: every
\* entry of result_log appears in the returned value, in append order.
C6_AsStated ==
  \A t \in Threads :
    (Terminal(t) /\ IsFailure(ret[t]))
      => CarriesLog(ret[t].text, result_log[t])

\* C6 amended: a failure return is the failure message alone, with no entry of
\* result_log in it; the log is returned only in the success report, where
\* every entry appears in append order.
C6_FailureIsMessageOnly ==
  \A t \in Threads :
    /\ (Terminal(t) /\ IsFailure(ret[t]))
         => /\ Len(ret[t].text) = 2
            /\ \A k \in DOMAIN result_log[t] :
                 ~Contains(ret[t].text, result_log[t][k])
    /\ (Terminal(t) /\ IsSuccess(ret[t]))
         => CarriesLog(ret[t].text, result_log[t])

C6_Witness ==
  \E t \in Threads :
    /\ Terminal(t) /\ IsFailure(ret[t])
    /\ Len(result_log[t]) >= 2
    /\ ret[t].text = MsgExists

\* C7 as stated: no execution of the operation ends with an exception
\* propagating to the caller.
C7_AsStated == \A t \in Threads : pc[t] # "raised"

\* C8: no rollback. When uv init, uv venv or uv add fails, the directories the
\* call created (the project directory among them) are on disk at return and
\* after; a following call with the same arguments returns the 'already
\* exists' failure and runs neither mkdir nor any scaffolding step.
C8_NoRollback ==
  \A t \in Threads :
    /\ (Terminal(t) /\ ScaffoldFailed(obs[t].ran))
         => /\ local[t].project_dir \in obs[t].created
            /\ obs[t].created \subseteq dirs
    /\ (Terminal(t) /\ Repeats(t) /\ ScaffoldFailed(obs[t].prev.ran))
         => /\ ret[t] = [kind |-> "return", text |-> MsgExists]
            /\ \A s \in {"mkdir"} \cup CwdSteps : obs[t].ran[s] = "none"

C8_Witness ==
  \E t \in Threads :
    /\ Terminal(t) /\ Repeats(t)
    /\ ScaffoldFailed(obs[t].prev.ran)
    /\ IsFailure(obs[t].prev.ret)
    /\ ret[t].text = MsgExists

\* C9 as stated: when the probe fails on macOS or Linux and both curl and sh
\* succeed, the call logs 'uv package manager installed successfully' and goes
\* on to the existence check.
C9_AsStated ==
  \A t \in Threads :
    (/\ ProbeFailedSupported(t)
     /\ obs[t].ran["curl"] = "ok"
     /\ obs[t].ran["sh"] = "ok")
      => /\ Contains(result_log[t], LogUvInstalled)
         /\ pc[t] = "check_project" \/ obs[t].ran["exists"] # "none"

\* C10: as long as no call was dispatched while another was in flight, every
\* step that acts on the working directory (uv init, venv, add, the two file
\* writes) runs in the project directory of its own call. (With overlapping
\* calls the witness is reached: a step of one call runs in the project
\* directory of the other.)
C10_SerialStepsInOwnDir ==
  ~overlapped =>
    \A t \in Threads : \A s \in CwdSteps :
      obs[t].ran[s] # "none" => obs[t].at[s] = local[t].project_dir

C10_Witness ==
  \E t \in Threads : \E u \in Threads \ {t} : \E s \in CwdSteps :
    /\ overlapped
    /\ obs[t].ran[s] = "ok"
    /\ local[u].project_dir # NoPath
    /\ local[u].project_dir # local[t].project_dir
    /\ obs[t].at[s] = local[u].project_dir
    /\ \A x \in StepNames :
         obs[t].ran[x] \notin Failed \cup {"OSError", "FileExistsError"}
           /\ obs[u].ran[x] \notin Failed \cup {"OSError", "FileExistsError"}

====
